---- MODULE Spec2Model ----
(***************************************************************************)
(* Retrieval and ranking engine of the knowledge-management backend:       *)
(*   backend/services/search_service.py        (SearchService)             *)
(*   backend/services/fixed_search_service.py  (FixedSearchService)        *)
(*   backend/services/vector_service.py        (VectorService)             *)
(*   attached_assets/ai_agent_*.py             (pick_most_related)         *)
(*                                                                         *)
(* Text is a sequence of whitespace-separated raw words.  Scores are       *)
(* fixed-point integers: BM25, Jaccard and cosine values are in units of   *)
(* 1/1000, fused scores in units of 1/10000.  Natural logarithms come from *)
(* a table (Ln1000), so the sign and the order of IDF values are exact.    *)
(***************************************************************************)
EXTENDS Integers, Sequences, FiniteSets, TLC

VARIABLES pc, call, ret, vector_store, embeddings_enabled,
          config_snippet, embedding_cache, config_file,
          user_memories, previous_message,
          table_rows

\* The configured SQL example of config_manager: the Snippet object, the
\* embedding cache file and the snippet text saved in the configuration file.
config_vars == <<config_snippet, embedding_cache, config_file>>

\* FixedChatService.user_memories, and for every user the message of the user's
\* last process_message call when its LLM call succeeded.
chat_vars == <<user_memories, previous_message>>

\* The rows of the table SimpleSQLite holds.
db_vars == <<table_rows>>

vars == <<pc, call, ret, vector_store, embeddings_enabled, config_vars, chat_vars, db_vars>>

(***************************************************************************)
(* Bounds of the model.                                                    *)
(***************************************************************************)
MaxDocs == 3
MaxSnippets == 4
MaxLimit == 1
MaxScores == 4
MaxRows == 3

(***************************************************************************)
(* Program constants.                                                      *)
(***************************************************************************)
MockDocCount == 5
TopSnippets == 3
NameWeight10 == 15
SqlWeight10 == 10
DefaultKeywordWeight10 == 4
DefaultVectorWeight10 == 6
HybridThreshold1000 == 100
SemanticThreshold1000 == 300
BaseFactor10 == 6
RaisedFactor10 == 7
EscalationShare10 == 7
DefaultTotalDocs == 10
DefaultAvgDocLen == 50

\* A missing vector (None or []) is the empty tuple.
NoVector == <<>>

\* bm25_similarity called without corpus_stats.
NoStats == [absent |-> TRUE]

(***************************************************************************)
(* Generic helpers: Python list semantics.                                 *)
(***************************************************************************)
Min(a, b) == IF a <= b THEN a ELSE b

Max(a, b) == IF a >= b THEN a ELSE b

Range(s) == {s[i] : i \in DOMAIN s}

RECURSIVE SumSeq(_)
SumSeq(s) == IF s = <<>> THEN 0 ELSE Head(s) + SumSeq(Tail(s))

\* A slice that is not taken: the whole list.
Slice_NotTaken(s, k) == s

\* s[:k] of Python: a negative k drops the last -k elements.
Slice(s, k) ==
  IF k >= 0 THEN SubSeq(s, 1, Min(k, Len(s)))
  ELSE SubSeq(s, 1, Max(Len(s) + k, 0))

\* [x for x in s if keep(x)]: keep[i] tells whether s[i] stays.
Filter(s, keep) ==
  LET idx == {i \in DOMAIN s : keep[i]}
      nth(k) == CHOOSE i \in idx : Cardinality({j \in idx : j < i}) = k - 1
  IN [k \in 1..Cardinality(idx) |-> s[nth(k)]]

\* A descending sort that puts equal keys in the reverse of their order.
SortDesc_TiesReversed(s, key) ==
  LET before(i) == Cardinality({j \in DOMAIN s :
                     \/ key[j] > key[i]
                     \/ (key[j] = key[i] /\ j > i)})
  IN [k \in 1..Len(s) |-> s[CHOOSE i \in DOMAIN s : before(i) = k - 1]]

\* list.sort(key=..., reverse=True), key[i] being the key of s[i]: stable, equal
\* keys keep their order.
SortDesc(s, key) ==
  LET before(i) == Cardinality({j \in DOMAIN s :
                     \/ key[j] > key[i]
                     \/ (key[j] = key[i] /\ j < i)})
  IN [k \in 1..Len(s) |-> s[CHOOSE i \in DOMAIN s : before(i) = k - 1]]

\* results.sort(key=lambda x: x['score'], reverse=True)
SortByScore(rows) == SortDesc(rows, [i \in DOMAIN rows |-> rows[i].score])

\* results.sort(key=lambda x: x['keyword_score'], reverse=True)
SortByKeywordScore(rows) == SortDesc(rows, [i \in DOMAIN rows |-> rows[i].keyword_score])

\* Number of occurrences of x in the list s.
Count(s, x) == Cardinality({i \in DOMAIN s : s[i] = x})

\* 1000 * ln(n), rounded, for the small integers the IDF formulas need.
Ln1000(n) ==
  <<0, 693, 1099, 1386, 1609, 1792, 1946, 2079, 2197, 2303, 2398, 2485>>[n]

(***************************************************************************)
(* Words.                                                                  *)
(***************************************************************************)
Lower(w) ==
  CASE w = "Revenue" -> "revenue"
    [] w = "Mock" -> "mock"
    [] OTHER -> w

IsPunct(w) == w \in {"??"}

IsNumber(w) == w \in {"1", "2", "3", "4", "5", "7"}

WordLen(w) ==
  CASE w \in {"x", "1", "2", "3", "4", "5", "7"} -> 1
    [] w \in {"of", "to", "??"} -> 2
    [] w \in {"Mock", "mock"} -> 4
    [] w \in {"login", "audit"} -> 5
    [] w \in {"report"} -> 6
    [] w \in {"document"} -> 8
    [] OTHER -> 7

(***************************************************************************)
(* Tokenizers.                                                             *)
(***************************************************************************)
\* text.lower(), word by word.
LowerAll(s) == [i \in DOMAIN s |-> Lower(s[i])]

\* re.findall(r"[a-zA-Z0-9]+", text.lower()): every alphanumeric run, repeats kept.
AgentTokens(text) ==
  LowerAll(Filter(text, [i \in DOMAIN text |-> ~IsPunct(text[i])]))

\* SearchService._tokenize: English words longer than 1, all numbers, as a set.
SearchService_tokenize(text) ==
  {Lower(text[i]) : i \in {j \in DOMAIN text :
      /\ ~IsPunct(text[j])
      /\ (IsNumber(text[j]) \/ WordLen(text[j]) > 1)}}

\* FixedSearchService._tokenize: punctuation blanked, tokens longer than 2, repeats kept.
FixedSearchService_tokenize(text) ==
  LowerAll(Filter(text, [i \in DOMAIN text |-> ~IsPunct(text[i]) /\ WordLen(text[i]) > 2]))

\* SearchService._preprocess_query: strip, drop runs of two or more of ?!.
SearchService_preprocess_query(query) ==
  Filter(query, [i \in DOMAIN query |-> ~IsPunct(query[i])])

(***************************************************************************)
(* Lexical scorers.                                                        *)
(***************************************************************************)
RECURSIVE SumFn(_)
SumFn(f) ==
  IF DOMAIN f = {} THEN 0
  ELSE LET x == CHOOSE y \in DOMAIN f : TRUE
       IN f[x] + SumFn([y \in DOMAIN f \ {x} |-> f[y]])

\* SearchService._calculate_idf: 0 for an unseen term, else ln(N / containing).
SearchService_calculate_idf(term, documents) ==
  LET containing_docs == Cardinality({i \in DOMAIN documents :
                            term \in SearchService_tokenize(documents[i])})
  IN IF containing_docs = 0 THEN 0
     ELSE Ln1000(Len(documents)) - Ln1000(containing_docs)

\* SearchService._calculate_bm25_score with k1 = 1.2, b = 0.75.  The tokens of
\* a document are a set, so tf is 1/doc_length or 0; with tf = 1/dl and
\* avg = total/N the term's tf component is 22*total / (10*total + 3*dl*total + 9*dl*dl*N).
SearchService_calculate_bm25_score(query_terms, document, documents) ==
  LET doc_tokens == SearchService_tokenize(document)
      doc_length == Cardinality(doc_tokens)
      total == SumSeq([i \in DOMAIN documents |->
                         Cardinality(SearchService_tokenize(documents[i]))])
      n == Len(documents)
      term_score(term) ==
        IF term \notin doc_tokens THEN 0
        ELSE (SearchService_calculate_idf(term, documents) * 22 * total)
               \div (10 * total + 3 * doc_length * total
                     + 9 * doc_length * doc_length * n)
  IN IF doc_length = 0 THEN 0
     ELSE SumFn([t \in query_terms |-> term_score(t)])

\* FixedSearchService._calculate_bm25_score: df is fixed at 1, so
\* idf = ln((doc_count - 0.5) / 1.5) = ln(2*doc_count - 1) - ln(3).
\* avg_doc_length is total_length / doc_count.
FixedIdf1000(doc_count) == Ln1000(2 * doc_count - 1) - Ln1000(3)

FixedSearchService_calculate_bm25_score(query_terms, doc_terms, doc_count, total_length) ==
  LET doc_length == Len(doc_terms)
      term_score(term) ==
        LET tf == Count(doc_terms, term)
        IN IF tf = 0 THEN 0
           ELSE (FixedIdf1000(doc_count) * 22 * tf * total_length)
                  \div (10 * tf * total_length + 3 * total_length
                        + 9 * doc_length * doc_count)
  IN IF query_terms = <<>> \/ doc_terms = <<>> THEN 0
     ELSE SumSeq([i \in DOMAIN query_terms |-> term_score(query_terms[i])])

\* naive_similarity: Jaccard similarity of the two token sets.
naive_similarity(a, b) ==
  LET at == Range(AgentTokens(a))
      bt == Range(AgentTokens(b))
  IN IF at = {} \/ bt = {} THEN 0
     ELSE (1000 * Cardinality(at \cap bt)) \div Cardinality(at \cup bt)

\* The corpus statistics pick_most_related builds: avg_doc_len is kept as the
\* pair total_len / total_docs.
CorpusStats(all_docs) ==
  [total_len |-> SumSeq([i \in DOMAIN all_docs |-> Len(AgentTokens(all_docs[i]))]),
   total_docs |-> Len(all_docs),
   doc_freq |-> [t \in UNION {Range(AgentTokens(all_docs[i])) : i \in DOMAIN all_docs}
                   |-> Cardinality({i \in DOMAIN all_docs :
                                      t \in Range(AgentTokens(all_docs[i]))})]]

\* bm25_similarity with k1 = 1.2, b = 0.75 and the coverage bonus.
AgentIdf1000(total_docs, df) == Ln1000(total_docs + 1) - Ln1000(df + 1) + 1000

bm25_similarity(query, document, corpus_stats) ==
  LET query_terms == AgentTokens(query)
      doc_terms == AgentTokens(document)
      doc_len == Len(doc_terms)
      given == "absent" \notin DOMAIN corpus_stats
      avg_num == IF given THEN corpus_stats.total_len ELSE DefaultAvgDocLen
      avg_den == IF given THEN corpus_stats.total_docs ELSE 1
      total_docs == IF given THEN corpus_stats.total_docs ELSE DefaultTotalDocs
      df(term) == IF given /\ term \in DOMAIN corpus_stats.doc_freq
                  THEN corpus_stats.doc_freq[term] ELSE 1
      query_term_set == Range(query_terms)
      term_score(term) ==
        LET tf == Count(doc_terms, term)
        IN IF tf = 0 THEN 0
           ELSE (AgentIdf1000(total_docs, df(term)) * 22 * tf * avg_num)
                  \div (10 * tf * avg_num + 3 * avg_num + 9 * doc_len * avg_den)
      score == SumFn([t \in query_term_set |-> term_score(t)])
      matched_terms == Cardinality(query_term_set \cap Range(doc_terms))
      nq == Cardinality(query_term_set)
      normalized == IF matched_terms > 0
                    THEN (score * (nq + matched_terms)) \div (2 * nq * nq)
                    ELSE score
  IN IF query_terms = <<>> \/ doc_terms = <<>> THEN 0
     ELSE Max(normalized, 0)

\* Whether a call of bm25_similarity would evaluate doc_len / avg_doc_len if
\* the division were made for every query term, before the test that the term
\* is in the document.
Bm25Divides_EveryTerm(query, document) == AgentTokens(query) # <<>>

\* Whether a call of bm25_similarity evaluates doc_len / avg_doc_len: not after
\* the early return for a query or a document without terms, and only inside
\* the loop for a query term that the document holds.
Bm25Divides(query, document) ==
  /\ AgentTokens(query) # <<>>
  /\ AgentTokens(document) # <<>>
  /\ Range(AgentTokens(query)) \cap Range(AgentTokens(document)) # {}

(***************************************************************************)
(* Vector scorers.  A vector is a tuple of small integers.                 *)
(***************************************************************************)
Dot(a, b) == SumSeq([i \in DOMAIN a |-> a[i] * b[i]])

\* 1000 * sqrt(n), rounded down, n >= 1.
Sqrt1000(n) ==
  CHOOSE r \in 1000..(1000 * n) : r * r <= n * 1000000 /\ (r + 1) * (r + 1) > n * 1000000

\* cosine_similarity (ai_agent): 0 for a missing vector, a length mismatch or a zero norm.
cosine_similarity(vec1, vec2) ==
  IF vec1 = NoVector \/ vec2 = NoVector \/ Len(vec1) # Len(vec2) THEN 0
  ELSE IF Dot(vec1, vec1) = 0 \/ Dot(vec2, vec2) = 0 THEN 0
  ELSE (Dot(vec1, vec2) * 1000000) \div Sqrt1000(Dot(vec1, vec1) * Dot(vec2, vec2))

\* VectorService._cosine_similarity: numpy raises on a length mismatch (caught, 0.0)
\* and yields nan for a zero norm.
Number(v) == [nan |-> FALSE, value |-> v]

NaN == [nan |-> TRUE, value |-> 0]

VectorService_cosine_similarity(vec1, vec2) ==
  IF Len(vec1) # Len(vec2) THEN Number(0)
  ELSE IF Dot(vec1, vec1) = 0 \/ Dot(vec2, vec2) = 0 THEN NaN
  ELSE Number((Dot(vec1, vec2) * 1000000)
                \div Sqrt1000(Dot(vec1, vec1) * Dot(vec2, vec2)))

(***************************************************************************)
(* VectorService: vector_store is a dict in insertion order, modelled as a *)
(* sequence of entries [id, chunks]; chunks is the list of the embeddings  *)
(* stored for the document.                                                *)
(***************************************************************************)
StoreKeys(store) == [i \in DOMAIN store |-> store[i].id]

StoreHas(store, id) == \E i \in DOMAIN store : store[i].id = id

StoreChunks(store, id) == store[CHOOSE i \in DOMAIN store : store[i].id = id].chunks

\* The result row search_similar builds for one chunk.
ChunkResult(doc_id, chunk_index, similarity) ==
  [id |-> doc_id, chunk_index |-> chunk_index, keyword_score |-> 0,
   vector_score |-> similarity, score |-> similarity, match_type |-> "chunk"]

\* The similarity of every chunk of a document, with the chunk's index.
ChunkSimilarities(chunks, query_embedding) ==
  [i \in DOMAIN chunks |->
     [index |-> i, sim |-> VectorService_cosine_similarity(query_embedding, chunks[i])]]

\* similarity >= threshold, which nan never satisfies.
ReachingThreshold(rows, threshold) ==
  Filter(rows, [i \in DOMAIN rows |-> ~rows[i].sim.nan /\ rows[i].sim.value >= threshold])

ChunkResults(doc_id, kept) ==
  [k \in DOMAIN kept |-> ChunkResult(doc_id, kept[k].index - 1, kept[k].sim.value)]

\* The rows of one document whose similarity reaches the threshold.
ChunkMatches(store, doc_id, query_embedding, threshold) ==
  ChunkResults(doc_id, ReachingThreshold(
    ChunkSimilarities(StoreChunks(store, doc_id), query_embedding), threshold))

RECURSIVE SimilarRows(_, _, _, _)
SimilarRows(store, search_docs, query_embedding, threshold) ==
  IF search_docs = <<>> THEN <<>>
  ELSE (IF StoreHas(store, Head(search_docs))
        THEN ChunkMatches(store, Head(search_docs), query_embedding, threshold)
        ELSE <<>>)
       \o SimilarRows(store, Tail(search_docs), query_embedding, threshold)

\* VectorService.search_similar.  query_embedding is what the provider returned
\* for the query: <<>> when it failed or returned nothing.
VectorService_search_similar(store, enabled, query_embedding, limit, threshold, specific_document_ids) ==
  IF ~enabled THEN <<>>
  ELSE IF query_embedding = <<>> THEN <<>>
  ELSE Slice(SortByScore(SimilarRows(store,
               IF specific_document_ids # <<>> THEN specific_document_ids
               ELSE StoreKeys(store),
               query_embedding, threshold)), limit)

(***************************************************************************)
(* SearchService.                                                          *)
(***************************************************************************)
\* The scored row of every document, before the filter.
KeywordScored(query_terms, documents, doc_contents) ==
  [i \in DOMAIN documents |->
     [id |-> documents[i].id, content |-> documents[i].content,
      keyword_score |-> SearchService_calculate_bm25_score(
                          query_terms, documents[i].content, doc_contents)]]

\* if content and bm25_score > 0
PositiveKeyword(rows) ==
  Filter(rows, [i \in DOMAIN rows |-> rows[i].content # <<>> /\ rows[i].keyword_score > 0])

KeywordRows(rows) ==
  [k \in DOMAIN rows |->
     [id |-> rows[k].id, chunk_index |-> 0, keyword_score |-> rows[k].keyword_score,
      vector_score |-> 0, score |-> rows[k].keyword_score, match_type |-> "keyword"]]

DocContents(documents) == [i \in DOMAIN documents |-> documents[i].content]

\* SearchService.keyword_search: documents is a list of [id, content].
SearchService_keyword_search(query, documents, limit) ==
  IF SearchService_tokenize(query) = {} THEN <<>>
  ELSE Slice(KeywordRows(SortByKeywordScore(PositiveKeyword(
               KeywordScored(SearchService_tokenize(query), documents,
                             DocContents(documents))))), limit)

\* The five demo documents hybrid_search makes up when it is given none:
\* 'Mock document {i} content related to: {query}'.
MockNumber(i) == <<"1", "2", "3", "4", "5">>[i]

MockDocuments(query) ==
  [i \in 1..MockDocCount |->
     [id |-> i,
      content |-> <<"Mock", "document", MockNumber(i), "content", "related", "to">> \o query]]

\* The keys of combined_scores in insertion order: keyword results first, then
\* the documents only the vector results name.
RECURSIVE Dedup(_)
Dedup(ids) ==
  IF ids = <<>> THEN <<>>
  ELSE LET rest == Dedup(SubSeq(ids, 1, Len(ids) - 1))
           last == ids[Len(ids)]
       IN IF last \in Range(rest) THEN rest ELSE Append(rest, last)

\* The fused score halved when one of the two signals is missing.
HybridScore_MissingPenalised(keyword_score, vector_score, keyword_weight, vector_weight) ==
  IF keyword_score = 0 \/ vector_score = 0
  THEN (keyword_score * keyword_weight + vector_score * vector_weight) \div 2
  ELSE keyword_score * keyword_weight + vector_score * vector_weight

\* The fused score, in units of 1/10000.
HybridScore(keyword_score, vector_score, keyword_weight, vector_weight) ==
  keyword_score * keyword_weight + vector_score * vector_weight

\* combined_scores[doc_id]['keyword']: the keyword score of the document, else 0.0.
KeywordOf(keyword_results, id) ==
  IF \E i \in DOMAIN keyword_results : keyword_results[i].id = id
  THEN keyword_results[CHOOSE i \in DOMAIN keyword_results :
                         keyword_results[i].id = id].keyword_score
  ELSE 0

\* combined_scores[doc_id]['vector']: every vector result overwrites the entry,
\* the last one for the document stays.
VectorOf(vector_results, id) ==
  LET hits == {i \in DOMAIN vector_results : vector_results[i].id = id}
  IN IF hits = {} THEN 0
     ELSE vector_results[CHOOSE i \in hits : \A j \in hits : j <= i].vector_score

HybridRow(id, keyword_score, vector_score, keyword_weight, vector_weight) ==
  [id |-> id, chunk_index |-> 0, keyword_score |-> keyword_score,
   vector_score |-> vector_score,
   score |-> HybridScore(keyword_score, vector_score, keyword_weight, vector_weight),
   match_type |-> "hybrid"]

ResultIds(results) == [i \in DOMAIN results |-> results[i].id]

CombinedRows(keys, keyword_results, vector_results, keyword_weight, vector_weight) ==
  [k \in DOMAIN keys |->
     HybridRow(keys[k], KeywordOf(keyword_results, keys[k]),
               VectorOf(vector_results, keys[k]), keyword_weight, vector_weight)]

\* One row per key of combined_scores.  Every key has its document: the vector
\* search is restricted to the ids of the documents.
CombinedScores(keyword_results, vector_results, keyword_weight, vector_weight) ==
  CombinedRows(Dedup(ResultIds(keyword_results) \o ResultIds(vector_results)),
               keyword_results, vector_results, keyword_weight, vector_weight)

\* if hybrid_score > threshold
AboveThreshold(rows, threshold) ==
  Filter(rows, [i \in DOMAIN rows |-> rows[i].score > threshold * 10])

HybridOver(store, enabled, query_embedding, query, docs, limit, keyword_weight, vector_weight, threshold) ==
  Slice(SortByScore(AboveThreshold(CombinedScores(
          SearchService_keyword_search(query, docs, limit * 2),
          VectorService_search_similar(store, enabled, query_embedding,
                                       limit * 2, threshold, ResultIds(docs)),
          keyword_weight, vector_weight), threshold)), limit)

\* SearchService.hybrid_search.  Weights are in tenths, threshold in 1/1000.
SearchService_hybrid_search(store, enabled, query_embedding, query, documents, limit, keyword_weight, vector_weight, threshold) ==
  HybridOver(store, enabled, query_embedding, query,
             IF documents = <<>> THEN MockDocuments(query) ELSE documents,
             limit, keyword_weight, vector_weight, threshold)

\* The 0-based index of the first score under the initial threshold, in the
\* descending list; the length of the list when there is none.
FirstBelow(sorted_scores) ==
  LET below == {i \in DOMAIN sorted_scores :
                  sorted_scores[i] * 10 < sorted_scores[1] * BaseFactor10}
  IN IF below = {} THEN Len(sorted_scores)
     ELSE (CHOOSE i \in below : \A j \in below : i <= j) - 1

\* The threshold raised when more than 70% of the scores are below the initial one.
ThresholdOfSorted_BelowShare(sorted_scores) ==
  IF Len(sorted_scores) = 1 THEN sorted_scores[1] * BaseFactor10
  ELSE IF (Len(sorted_scores) - FirstBelow(sorted_scores)) * 10
            > EscalationShare10 * Len(sorted_scores)
       THEN sorted_scores[1] * RaisedFactor10
       ELSE sorted_scores[1] * BaseFactor10

ThresholdOfSorted(sorted_scores) ==
  IF Len(sorted_scores) = 1 THEN sorted_scores[1] * BaseFactor10
  ELSE IF /\ FirstBelow(sorted_scores) < Len(sorted_scores)
          /\ FirstBelow(sorted_scores) * 10 > EscalationShare10 * Len(sorted_scores)
       THEN sorted_scores[1] * RaisedFactor10
       ELSE sorted_scores[1] * BaseFactor10

\* SearchService._calculate_mass_selection_threshold.  The result is ten times
\* the threshold, so that 0.6 * max_score and 0.7 * max_score stay integers.
SearchService_calculate_mass_selection_threshold(scores) ==
  IF scores = <<>> THEN 0 ELSE ThresholdOfSorted(SortDesc(scores, scores))

Scores(results) == [i \in DOMAIN results |-> results[i].score]

\* The results whose score is at least / above the bound (bound is ten times the threshold).
AtLeast(results, bound) ==
  Filter(results, [i \in DOMAIN results |-> results[i].score * 10 >= bound])

Above(results, bound) ==
  Filter(results, [i \in DOMAIN results |-> results[i].score * 10 > bound])

\* The selection with the boundary excluded: score > threshold.
SearchService_apply_mass_selection_Exclusive(results, threshold_factor) ==
  IF results = <<>> THEN results
  ELSE Above(results, SearchService_calculate_mass_selection_threshold(Scores(results)))

\* SearchService._apply_mass_selection: threshold_factor is accepted and not read.
SearchService_apply_mass_selection(results, threshold_factor) ==
  IF results = <<>> THEN results
  ELSE AtLeast(results, SearchService_calculate_mass_selection_threshold(Scores(results)))

\* The dictionary with final_count taken before the limit is applied.
NewSearchResponse_CountBeforeLimit(results, selected_results, limit, search_type) ==
  [results |-> Slice(selected_results, limit),
   total_found |-> Len(results),
   selected_count |-> Len(selected_results),
   final_count |-> Len(selected_results),
   search_type |-> search_type,
   error |-> FALSE]

\* The dictionary new_search returns when the search raised: it has no search_type.
NewSearchError ==
  [results |-> <<>>, total_found |-> 0, selected_count |-> 0, final_count |-> 0,
   error |-> TRUE]

\* The dictionary new_search returns for the results of the search.
NewSearchResponse(results, selected_results, limit, search_type) ==
  [results |-> Slice(selected_results, limit),
   total_found |-> Len(results),
   selected_count |-> Len(selected_results),
   final_count |-> Len(Slice(selected_results, limit)),
   search_type |-> search_type,
   error |-> FALSE]

Selected(results, limit, search_type) ==
  NewSearchResponse(results, SearchService_apply_mass_selection(results, BaseFactor10),
                    limit, search_type)

\* SearchService.new_search; smart_search returns its "results".
\* unknown_kwarg: the caller's **kwargs hold a name hybrid_search does not
\* accept; the call raises TypeError inside the try.  The keyword and semantic
\* branches do not pass kwargs on.
SearchService_new_search(store, enabled, query_embedding, query, search_type, limit, keyword_weight, vector_weight, threshold, unknown_kwarg) ==
  IF unknown_kwarg /\ search_type \notin {"semantic", "keyword"} THEN NewSearchError
  ELSE Selected(
    CASE search_type = "semantic" ->
           VectorService_search_similar(store, enabled, query_embedding,
             limit * 2, SemanticThreshold1000, <<>>)
      [] search_type = "keyword" ->
           SearchService_keyword_search(SearchService_preprocess_query(query), <<>>, limit * 2)
      [] OTHER ->
           SearchService_hybrid_search(store, enabled, query_embedding,
             SearchService_preprocess_query(query), <<>>, limit * 2,
             keyword_weight, vector_weight, threshold),
    limit, search_type)

(***************************************************************************)
(* FixedSearchService.                                                     *)
(***************************************************************************)
\* The scored copy of every document, before the filter.
FixedScored(query_terms, documents, doc_terms_list, total_length) ==
  [i \in DOMAIN documents |->
     [id |-> documents[i].id, chunk_index |-> 0, keyword_score |-> 0, vector_score |-> 0,
      score |-> FixedSearchService_calculate_bm25_score(
                  query_terms, doc_terms_list[i], Len(documents), total_length),
      match_type |-> "keyword"]]

\* if score > 0
PositiveScore(rows) == Filter(rows, [i \in DOMAIN rows |-> rows[i].score > 0])

\* sum(all_doc_lengths)
TotalLength(doc_terms_list) == SumSeq([i \in DOMAIN doc_terms_list |-> Len(doc_terms_list[i])])

FixedRanked(query_terms, documents, doc_terms_list, limit) ==
  Slice(SortByScore(PositiveScore(FixedScored(query_terms, documents, doc_terms_list,
                                              TotalLength(doc_terms_list)))), limit)

\* FixedSearchService.keyword_search.
FixedSearchService_keyword_search(query, documents, limit) ==
  IF documents = <<>> \/ query = <<>> THEN <<>>
  ELSE IF FixedSearchService_tokenize(query) = <<>> THEN <<>>
  ELSE FixedRanked(FixedSearchService_tokenize(query), documents,
                   [i \in DOMAIN documents |->
                      FixedSearchService_tokenize(documents[i].content)], limit)

\* FixedSearchService.vector_search calls VectorService.search_documents, which
\* VectorService does not define: the AttributeError is caught and [] returned.
FixedSearchService_vector_search(query, limit) == <<>>

\* The score a result list holds for the document, 0 when it holds none.
FixedScoreOf(results, id) ==
  LET hits == {i \in DOMAIN results : results[i].id = id}
  IN IF hits = {} THEN 0 ELSE results[CHOOSE i \in hits : TRUE].score

FixedCombinedRows(keys, keyword_results, vector_results, keyword_weight, vector_weight) ==
  [k \in DOMAIN keys |->
     HybridRow(keys[k], FixedScoreOf(keyword_results, keys[k]),
               FixedScoreOf(vector_results, keys[k]), keyword_weight, vector_weight)]

\* all_results: one entry per document id, keyword results first.
FixedCombined(keyword_results, vector_results, keyword_weight, vector_weight) ==
  FixedCombinedRows(Dedup(ResultIds(keyword_results) \o ResultIds(vector_results)),
                    keyword_results, vector_results, keyword_weight, vector_weight)

\* FixedSearchService.hybrid_search: documents are the user's rows of the database.
FixedSearchService_hybrid_search(query, documents, search_type, limit, keyword_weight, vector_weight) ==
  IF documents = <<>> THEN <<>>
  ELSE Slice(SortByScore(FixedCombined(
               IF search_type \in {"keyword", "hybrid"}
               THEN FixedSearchService_keyword_search(query, documents, limit * 2)
               ELSE <<>>,
               IF search_type \in {"semantic", "vector", "hybrid"}
               THEN FixedSearchService_vector_search(query, limit * 2)
               ELSE <<>>,
               keyword_weight, vector_weight)), limit)

\* The dictionary smart_search returns for the results of the search.
FixedResponse(results, search_type) ==
  [results |-> results, total_found |-> Len(results), search_type |-> search_type,
   error |-> FALSE]

\* FixedSearchService.smart_search.
FixedSearchService_smart_search(query, documents, search_type, limit, keyword_weight, vector_weight) ==
  FixedResponse(
    CASE search_type = "keyword" ->
           FixedSearchService_keyword_search(query, documents, limit)
      [] search_type \in {"semantic", "vector"} ->
           FixedSearchService_vector_search(query, limit)
      [] OTHER ->
           FixedSearchService_hybrid_search(query, documents, "hybrid", limit,
                                            keyword_weight, vector_weight),
    search_type)

(***************************************************************************)
(* SQL-example retrieval (ai_agent): a snippet is [name, description, sql, *)
(* embedding], embedding being NoVector when none is cached.               *)
(***************************************************************************)
\* Which scorer pick_most_related ends up using.  use_embedding is the
\* configuration flag together with an embedding model being available;
\* query_embedding is what calculate_embedding returned (NoVector on failure).
\* The choice of scorer without the fallback for snippets that have no embedding.
PickScorer_NoFallback(snippets, use_bm25, use_embedding, query_embedding) ==
  IF use_embedding /\ query_embedding # NoVector THEN "embedding"
  ELSE IF use_bm25 THEN "bm25" ELSE "jaccard"

PickScorer(snippets, use_bm25, use_embedding, query_embedding) ==
  LET use_embedding_retrieval == use_embedding /\ query_embedding # NoVector
      embedded == {i \in DOMAIN snippets : snippets[i].embedding # NoVector}
  IN IF use_embedding_retrieval /\ embedded # {} THEN "embedding"
     ELSE IF use_embedding_retrieval THEN "bm25"
     ELSE IF use_bm25 THEN "bm25" ELSE "jaccard"

\* all_docs: name, description and sql of every snippet.
AllDocs(snippets) ==
  [i \in DOMAIN snippets |-> snippets[i].name \o snippets[i].description \o snippets[i].sql]

\* total_score of one snippet under the scorer, in units of 1/10000.
PickScore(scorer, user_query, snippet, corpus_stats, query_embedding) ==
  CASE scorer = "embedding" -> 10 * cosine_similarity(query_embedding, snippet.embedding)
    [] scorer = "bm25" ->
         NameWeight10 * bm25_similarity(user_query, snippet.name \o snippet.description,
                                        corpus_stats)
         + SqlWeight10 * bm25_similarity(user_query, snippet.sql, corpus_stats)
    [] OTHER ->
         Max(NameWeight10 * naive_similarity(user_query, snippet.name \o snippet.description),
             SqlWeight10 * naive_similarity(user_query, snippet.sql))

\* snippet_scores before the sort: the embedding scorer skips the snippets that
\* have no embedding.
PickScored(scorer, user_query, snippets, corpus_stats, query_embedding) ==
  LET idx == IF scorer = "embedding"
             THEN {i \in DOMAIN snippets : snippets[i].embedding # NoVector}
             ELSE DOMAIN snippets
  IN Filter([i \in DOMAIN snippets |->
               [snippet |-> snippets[i], index |-> i,
                score |-> IF i \in idx
                          THEN PickScore(scorer, user_query, snippets[i], corpus_stats,
                                         query_embedding)
                          ELSE 0]],
            [i \in DOMAIN snippets |-> i \in idx])

\* The values of avg_doc_len, as the total length of the corpus it is computed
\* from, with which the bm25_similarity calls of pick_most_related evaluate
\* doc_len / avg_doc_len: two calls per snippet, for name with description and
\* for sql.
PickDivisors(scorer, user_query, snippets) ==
  IF scorer # "bm25" THEN {}
  ELSE {CorpusStats(AllDocs(snippets)).total_len :
          i \in {j \in DOMAIN snippets :
                   \/ Bm25Divides(user_query, snippets[j].name \o snippets[j].description)
                   \/ Bm25Divides(user_query, snippets[j].sql)}}

\* How often pick_most_related made one call of the provider per snippet.
PickProviderCalls_PerSnippet(snippets, use_embedding) ==
  IF snippets = <<>> \/ ~use_embedding THEN 0 ELSE 1 + Len(snippets)

\* How often pick_most_related invokes the embedding provider: once, in
\* calculate_embedding for the query, when embedding retrieval is configured and
\* a model is available; the snippets bring their cached embeddings.
PickProviderCalls(snippets, use_embedding) ==
  IF snippets = <<>> \/ ~use_embedding THEN 0 ELSE 1

PickResponse(top, scorer) ==
  [returns |-> "list",
   results |-> [i \in DOMAIN top |->
                  [snippet |-> top[i].snippet, index |-> top[i].index,
                   score |-> top[i].score, rank |-> i]],
   scorer |-> scorer]

\* pick_most_related.  Scores are in units of 1/10000; index is the position of
\* the snippet in the corpus.  With no snippets the code returns the empty
\* string "" (returns = "str"), otherwise a list.
pick_most_related(user_query, snippets, use_bm25, use_embedding, query_embedding) ==
  IF snippets = <<>> THEN [returns |-> "str", results |-> <<>>, scorer |-> "none"]
  ELSE PickResponse(
         Slice(SortByScore(PickScored(
                 PickScorer(snippets, use_bm25, use_embedding, query_embedding),
                 user_query, snippets, CorpusStats(AllDocs(snippets)), query_embedding)),
               TopSnippets),
         PickScorer(snippets, use_bm25, use_embedding, query_embedding))

(***************************************************************************)
(* Inputs.                                                                 *)
(***************************************************************************)
Queries == {<<>>, <<"Revenue", "??">>, <<"of", "report">>}

Contents == {<<"revenue", "report">>, <<"login", "audit">>,
             <<"Revenue", "of", "revenue">>}

SeqsUpTo(S, n) == UNION {[1..k -> S] : k \in 0..n}

\* A corpus of documents: ids are doc_1, doc_2, ... as DatabaseService.store_document
\* numbers them.
Corpora == {[i \in DOMAIN c |-> [id |-> i, content |-> c[i]]] : c \in SeqsUpTo(Contents, MaxDocs)}

\* The chunk embeddings the provider returns for the documents that are
\* uploaded: none (every chunk failed), one chunk, two chunks, three chunks.
UploadEmbeddings == {<<>>, <<<<1, 0>>>>, <<<<1, 0>>, <<-1, 0>>>>, <<<<1, 1>>, <<1, 0>>>>,
                     <<<<1, 0>>, <<1, 1>>, <<1, 0>>>>}

\* What the embedding provider returns for a query: NoVector when it fails.
QueryEmbeddings == {NoVector, <<1, 0>>, <<1, 1>>}

\* pick_most_related: <<use_embedding, what calculate_embedding returns>>.
EmbeddingConfigs == {<<FALSE, NoVector>>, <<TRUE, NoVector>>, <<TRUE, <<1, 0>>>>}

StoreIds == {1}

SearchTypes == {"smart_hybrid", "keyword", "semantic", "vector", "fuzzy"}

Limits == (-1)..MaxLimit

\* keyword_weight and vector_weight, in tenths.
Weights == {<<DefaultKeywordWeight10, DefaultVectorWeight10>>,
            <<-DefaultKeywordWeight10, DefaultVectorWeight10>>}

\* Weights a caller of hybrid_search sets: the defaults, and the keyword signal
\* switched off.
FusedWeights == {<<DefaultKeywordWeight10, DefaultVectorWeight10>>,
                 <<0, DefaultVectorWeight10>>}

\* Limits that leave room for more than one result.
FusedLimits == {MaxLimit, MaxLimit + 1}

\* search_type of FixedSearchService.hybrid_search.
FixedHybridTypes == {"hybrid", "keyword", "semantic"}

\* threshold of hybrid_search, in 1/1000.
Thresholds == {HybridThreshold1000, -1000}

SnippetPool ==
  {[name |-> <<"revenue", "report">>, description |-> <<>>, sql |-> <<"revenue">>,
    embedding |-> <<1, 0>>],
   [name |-> <<"login">>, description |-> <<"audit">>, sql |-> <<"login", "of">>,
    embedding |-> NoVector],
   [name |-> <<"??">>, description |-> <<>>, sql |-> <<>>, embedding |-> <<-1, 0>>]}

SnippetCorpora == SeqsUpTo(SnippetPool, MaxSnippets)

PickQueries == {<<>>, <<"Revenue">>, <<"login", "report">>}

\* The scores of the result lists handed to the mass selection.
ScoreValues == {-10, 0, 1, 6, 7, 10}

ResultLists ==
  {[i \in DOMAIN sc |-> [id |-> i, score |-> sc[i]]] : sc \in SeqsUpTo(ScoreValues, MaxScores)}

\* The threshold_factor a caller passes, in tenths: the default 0.6, and 0.5, 0.8.
Factors10 == {BaseFactor10, 5, 8}

\* The document contents of a corpus of at least one document.
ContentLists == SeqsUpTo(Contents, MaxDocs) \ {<<>>}

\* The statistics pick_most_related builds for a corpus of 11 one-word snippets
\* that all hold 'of', one of which also counts for 'revenue' and for 'report'.
LargeCorpusStats ==
  [total_len |-> 11, total_docs |-> 11,
   doc_freq |-> [t \in {"of", "revenue", "report"} |-> IF t = "of" THEN 11 ELSE 1]]

\* corpus_stats handed to bm25_similarity: none, or the statistics of a corpus.
StatsChoices == {NoStats, LargeCorpusStats} \cup {CorpusStats(c) : c \in ContentLists}

\* Queries handed to bm25_similarity: with one, two and three distinct terms.
Bm25Queries ==
  Queries \cup {<<"revenue", "login">>, <<"revenue", "of", "login">>, <<"revenue", "of">>}

\* Vectors handed to the cosine functions: empty, zero, of one and two components.
CosineVectors == {NoVector, <<0, 0>>, <<1, 0>>, <<1, 1>>, <<-1, 0>>, <<1>>}

\* A text field of a snippet is a string, modelled as the sequence of its
\* pieces; "::" is the separator get_embedding_key puts between the fields.
SnippetNames == {<<"a">>, <<"a", "::", "b">>}

SnippetSqls == {<<"c">>, <<"b", "::", "c">>}

SnippetDescriptions == {<<>>, <<"d">>}

\* embedding of a Snippet that has none (None).
NoEmbedding == <<>>

InitialSnippet == [name |-> <<"a">>, sql |-> <<"c">>, description |-> <<>>,
                   embedding |-> NoEmbedding]

\* The text fields of a snippet.  An embedding is modelled by the text the
\* provider computed it for.
SnippetText(s) == <<s.name, s.sql, s.description>>

\* The embedding cache file before anything is cached: {}.
NoCache == <<>>

\* Snippet.get_embedding_key: f"{name}::{sql}::{description}".
EmbeddingKey(s) == s.name \o <<"::">> \o s.sql \o <<"::">> \o s.description

\* cache[embedding_key] = {..., "embedding": embedding}
CachePut(cache, key, embedding) == (key :> embedding) @@ cache

\* ensure_snippets_have_embeddings for one snippet: a snippet that has an
\* embedding is left alone; otherwise the cache is asked by key, and only then
\* the provider, whose answer (generated) is cached.  The result is the snippet
\* and the cache.
ensure_snippets_have_embeddings(s, cache, generated) ==
  IF s.embedding # NoEmbedding THEN [snippet |-> s, cache |-> cache]
  ELSE IF EmbeddingKey(s) \in DOMAIN cache
  THEN [snippet |-> [s EXCEPT !.embedding = cache[EmbeddingKey(s)]], cache |-> cache]
  ELSE IF generated
  THEN [snippet |-> [s EXCEPT !.embedding = SnippetText(s)],
        cache |-> CachePut(cache, EmbeddingKey(s), SnippetText(s))]
  ELSE [snippet |-> s, cache |-> cache]

\* The Snippet load_config builds from the configuration file: no embedding yet.
SnippetOfFile(text) ==
  [name |-> text[1], sql |-> text[2], description |-> text[3], embedding |-> NoEmbedding]

\* The users of the chat service, the messages they send.
Users == {"u1", "u2"}

NoMessage == ""

\* The texts a user types; the texts of two users differ.
MessagesOf(u) ==
  IF u = "u1" THEN {"u1: my name is Alice", "u1: what is my name"}
  ELSE {"u2: my name is Bob", "u2: what is my name"}

\* memory.chat_memory.messages[-6:] : the part of a user's memory that is read.
MemoryWindow == 6

\* conversation_history[-10:] : the part of the supplied history that is loaded.
HistoryWindow == 10

LastOf(s, n) == IF Len(s) <= n THEN s ELSE SubSeq(s, Len(s) - n + 1, Len(s))

HumanMessage(content) == [role |-> "user", content |-> content]

AIMessage(content) == [role |-> "assistant", content |-> content]

\* The conversation_history a client supplies: none, or five earlier messages
\* of the conversation as the client has them, or two entries that carry no
\* user or assistant role.
ConversationHistories ==
  { <<>>,
    << HumanMessage("earlier question"), AIMessage("earlier answer"),
       HumanMessage("earlier question"), AIMessage("earlier answer"),
       HumanMessage("earlier question") >>,
    << [role |-> "system", content |-> "earlier note"],
       [role |-> "system", content |-> "earlier note"] >> }

\* The entries of the history that process_message adds to the memory.
LoadedHistory(conversation_history) ==
  SelectSeq(LastOf(conversation_history, HistoryWindow),
            LAMBDA msg : msg.role \in {"user", "assistant"})

\* The message list handed to the LLM, after the system prompt: the last
\* messages of the memory, then the current message.
LLMMessages(memory, message) == LastOf(memory, MemoryWindow) \o <<HumanMessage(message)>>

\* process_message on one user's memory.  Of chat_memory.messages only the
\* last MemoryWindow entries are ever read, and that suffix is what is kept.
MemoryAfter(memory, conversation_history, message, llm_ok) ==
  LastOf(IF llm_ok
         THEN memory \o LoadedHistory(conversation_history)
                \o <<HumanMessage(message), AIMessage("answer")>>
         ELSE memory \o LoadedHistory(conversation_history), MemoryWindow)

\* The table load_rows built: a row is its number.
InitialRows == <<1, 2>>

\* The row lists load_rows is given.
RowsChoices == {<<1, 2>>, <<1>>, <<2, 1>>}

\* The row an INSERT of the SQL texts adds.
InsertedRow == 3

\* SQL texts handed to execute_safe_select: a text is its lines, a line its
\* words.
SqlTexts ==
  { << <<"SELECT", "*", "FROM", "sales">> >>,
    << <<"select", "*", "FROM", "sales">> >>,
    << <<"DELETE", "FROM", "sales">> >>,
    << <<"WITH", "x", "AS", "(", "SELECT", "1", ")", "SELECT", "*", "FROM", "sales">> >>,
    << <<"WITH", "x", "AS", "(", "SELECT", "1", ")", "DELETE", "FROM", "sales">> >>,
    << <<"WITH", "x", "AS", "(", "SELECT", "1", ")", "DELETE", "FROM", "sales",
         "RETURNING", "*">> >>,
    << <<"WITH", "x", "AS", "(", "SELECT", "1", ")", "INSERT", "INTO", "sales",
         "SELECT", "3", "FROM", "x">> >>,
    << <<"--", "note">>, <<"SELECT", "*", "FROM", "sales">> >>,
    << <<"--", "note">>, <<"DELETE", "FROM", "sales">> >>,
    << <<"/*", "note", "*/", "DELETE", "FROM", "sales", "/*">>, <<"SELECT", "*/">> >>,
    << <<"<fence>sql">>, <<"SELECT", "*", "FROM", "sales">>, <<"<fence>">> >>,
    << <<"SELECT", "reason:", "FROM", "sales">> >>,
    << >> }

(***************************************************************************)
(* SimpleSQLite.                                                           *)
(***************************************************************************)
\* str.upper() on the words of the SQL texts.
UpperWord(word) ==
  CASE word = "select" -> "SELECT"
    [] word = "note" -> "NOTE"
    [] word = "x" -> "X"
    [] word = "sales" -> "SALES"
    [] word = "reason:" -> "REASON:"
    [] word = "<fence>sql" -> "<FENCE>SQL"
    [] OTHER -> word

\* str.lower() on the words of the SQL texts that hold an explanatory marker.
LowerWord(word) == IF word \in {"reason:", "REASON:"} THEN "reason:" ELSE word

\* s after the removal of a leading and of a trailing markdown code fence
\* (three backquotes, written <fence> here), split into lines and stripped:
\* the lines that are left empty have no words.
WithoutFences(text) ==
  [i \in DOMAIN text |->
     SelectSeq(text[i], LAMBDA word : word \notin {"<fence>sql", "<fence>"})]

\* The first line that is not empty and does not start with -- or /*; the
\* whole text, here its words, when there is none.
RECURSIVE FirstMeaningfulLine(_)
FirstMeaningfulLine(lines) ==
  IF lines = <<>> THEN <<>>
  ELSE IF Head(lines) # <<>> /\ Head(lines)[1] \notin {"--", "/*"} THEN Head(lines)
  ELSE FirstMeaningfulLine(Tail(lines))

RECURSIVE JoinLines(_)
JoinLines(lines) ==
  IF lines = <<>> THEN <<>> ELSE Head(lines) \o JoinLines(Tail(lines))

FirstMeaningful(text) ==
  IF FirstMeaningfulLine(WithoutFences(text)) # <<>>
  THEN FirstMeaningfulLine(WithoutFences(text))
  ELSE JoinLines(WithoutFences(text))

\* allowed_first_words
AllowedFirstWords == {"SELECT", "WITH", "SHOW", "DESCRIBE", "DESC", "EXPLAIN", "PRAGMA"}

\* The check of execute_safe_select before the text is executed: the error it
\* raises, "none" when the text passes.  The explanatory markers of one word
\* are those the texts can hold.
SafeSelectCheck(text) ==
  IF \E i \in DOMAIN FirstMeaningful(text) :
       LowerWord(FirstMeaningful(text)[i]) \in {"post_filter:", "reason:"}
  THEN "ValueError"
  ELSE IF FirstMeaningful(text) = <<>> THEN "ValueError"
  ELSE IF UpperWord(FirstMeaningful(text)[1]) \notin AllowedFirstWords THEN "ValueError"
  ELSE "none"

\* What SQLite reads of the original text: the words outside the comments.
\* in_comment is "no", "line" (after --, up to the end of the line) or "block"
\* (after /*, up to */).
RECURSIVE SqlWords(_, _, _)
SqlWords(text, words, in_comment) ==
  IF words = <<>>
  THEN IF text = <<>> THEN <<>>
       ELSE SqlWords(Tail(text), Head(text), IF in_comment = "line" THEN "no" ELSE in_comment)
  ELSE IF in_comment = "line" THEN SqlWords(text, <<>>, "line")
  ELSE IF in_comment = "block"
  THEN SqlWords(text, Tail(words), IF Head(words) = "*/" THEN "no" ELSE "block")
  ELSE IF Head(words) = "--" THEN SqlWords(text, <<>>, "line")
  ELSE IF Head(words) = "/*" THEN SqlWords(text, Tail(words), "block")
  ELSE <<UpperWord(Head(words))>> \o SqlWords(text, Tail(words), "no")

\* The statement after its WITH clause.
RECURSIVE AfterWith(_)
AfterWith(words) ==
  IF words = <<>> THEN <<>>
  ELSE IF Head(words) = ")" THEN Tail(words)
  ELSE AfterWith(Tail(words))

\* The verb of the statement SQLite executes; "" when the text is not a statement.
SqlVerb(text) ==
  IF SqlWords(text, <<>>, "no") = <<>> THEN ""
  ELSE IF Head(SqlWords(text, <<>>, "no")) = "WITH"
  THEN IF AfterWith(SqlWords(text, <<>>, "no")) = <<>> THEN ""
       ELSE Head(AfterWith(SqlWords(text, <<>>, "no")))
  ELSE Head(SqlWords(text, <<>>, "no"))

\* The table after self.conn.execute(original_sql).
RowsAfterExecute(rows, text) ==
  CASE SqlVerb(text) = "DELETE" -> <<>>
    [] SqlVerb(text) = "INSERT" -> Append(rows, InsertedRow)
    [] OTHER -> rows

\* What the execution and the reading of the cursor raise: cursor.description
\* is None for a statement that returns no rows.
ExecuteRaises(text) ==
  CASE SqlVerb(text) = "SELECT" -> "none"
    [] SqlVerb(text) \in {"DELETE", "INSERT"} ->
         IF \E i \in DOMAIN SqlWords(text, <<>>, "no") :
              SqlWords(text, <<>>, "no")[i] = "RETURNING"
         THEN "none" ELSE "TypeError"
    [] OTHER -> "OperationalError"

NoCall == [op |-> "none"]

NoRet == [results |-> <<>>]

(***************************************************************************)
(* The service: requests arrive one at a time, the caller consumes the     *)
(* result, and documents are added to and removed from the vector store    *)
(* between requests.                                                       *)
(***************************************************************************)
Init ==
  /\ pc = "idle"
  /\ call = NoCall
  /\ ret = NoRet
  /\ vector_store = <<>>
  /\ embeddings_enabled \in BOOLEAN
  /\ config_snippet = InitialSnippet
  /\ embedding_cache = NoCache
  /\ config_file = SnippetText(InitialSnippet)
  /\ user_memories = [u \in Users |-> <<>>]
  /\ previous_message = [u \in Users |-> NoMessage]
  /\ table_rows = InitialRows

\* dict assignment: an existing key keeps its place, a new key goes last.
StorePut(store, id, chunks) ==
  IF StoreHas(store, id)
  THEN [i \in DOMAIN store |-> IF store[i].id = id THEN [id |-> id, chunks |-> chunks]
                               ELSE store[i]]
  ELSE Append(store, [id |-> id, chunks |-> chunks])

StoreDel(store, id) ==
  LET other(e) == e.id # id IN Filter(store, [i_ \in DOMAIN store |-> other(store[i_])])

\* Another request may run them while a search awaits the query embedding
\* (pc = "awaiting"): the write to vector_store is one step of the event loop.
\* VectorService.add_document / generate_embeddings on the VectorService that
\* SearchService owns (self.vector_service): embeddings are what the provider
\* returned for the chunks it did not fail on.
AddDocument ==
  /\ pc \in {"idle", "awaiting"}
  /\ embeddings_enabled
  /\ \E id \in StoreIds, embeddings \in UploadEmbeddings :
       vector_store' = StorePut(vector_store, id, embeddings)
  /\ UNCHANGED <<pc, call, ret, embeddings_enabled, config_vars, chat_vars, db_vars>>

\* VectorService.remove_document.
RemoveDocument ==
  /\ pc \in {"idle", "awaiting"}
  /\ \E id \in StoreIds :
       /\ StoreHas(vector_store, id)
       /\ vector_store' = StoreDel(vector_store, id)
  /\ UNCHANGED <<pc, call, ret, embeddings_enabled, config_vars, chat_vars, db_vars>>

\* SearchService.new_search (and smart_search, which returns its results).
NewSearch ==
  /\ pc = "idle"
  /\ \E query \in Queries, search_type \in SearchTypes, limit \in Limits,
        w \in Weights, threshold \in Thresholds, query_embedding \in QueryEmbeddings,
        unknown_kwarg \in BOOLEAN :
       /\ call' = [op |-> "new_search", query |-> query, search_type |-> search_type,
                   limit |-> limit, keyword_weight |-> w[1], vector_weight |-> w[2],
                   threshold |-> threshold, query_embedding |-> query_embedding,
                   unknown_kwarg |-> unknown_kwarg]
       /\ ret' = SearchService_new_search(vector_store, embeddings_enabled,
                   query_embedding, query, search_type, limit, w[1], w[2], threshold,
                   unknown_kwarg)
  /\ pc' = "done"
  /\ UNCHANGED <<vector_store, embeddings_enabled, config_vars, chat_vars, db_vars>>

\* SearchService.hybrid_search called with the caller's documents, the limit,
\* weights and threshold drawn from the given sets.
HybridSearchOver(limits, weights, thresholds) ==
  /\ pc = "idle"
  /\ \E query \in Queries, documents \in Corpora, limit \in limits, w \in weights,
        threshold \in thresholds, query_embedding \in QueryEmbeddings :
       /\ call' = [op |-> "hybrid_search", query |-> query, documents |-> documents,
                   limit |-> limit, keyword_weight |-> w[1], vector_weight |-> w[2],
                   threshold |-> threshold, query_embedding |-> query_embedding]
       /\ ret' = [results |-> SearchService_hybrid_search(vector_store,
                    embeddings_enabled, query_embedding, query, documents, limit,
                    w[1], w[2], threshold),
                  error |-> FALSE]
  /\ pc' = "done"
  /\ UNCHANGED <<vector_store, embeddings_enabled, config_vars, chat_vars, db_vars>>

\* hybrid_search with its default weights and threshold.
HybridSearch ==
  HybridSearchOver(Limits, {<<DefaultKeywordWeight10, DefaultVectorWeight10>>},
                   {HybridThreshold1000})

\* hybrid_search with weights and threshold the caller sets, and room for
\* more than one result.
HybridSearchTuned == HybridSearchOver(FusedLimits, FusedWeights, Thresholds)

\* FixedSearchService.hybrid_search: documents is what get_user_documents returns.
FixedHybridSearch ==
  /\ pc = "idle"
  /\ \E query \in Queries, documents \in Corpora, search_type \in FixedHybridTypes,
        limit \in FusedLimits, w \in FusedWeights :
       /\ call' = [op |-> "fixed_hybrid_search", query |-> query, documents |-> documents,
                   search_type |-> search_type, limit |-> limit,
                   keyword_weight |-> w[1], vector_weight |-> w[2]]
       /\ ret' = [results |-> FixedSearchService_hybrid_search(query, documents,
                                search_type, limit, w[1], w[2]),
                  error |-> FALSE]
  /\ pc' = "done"
  /\ UNCHANGED <<vector_store, embeddings_enabled, config_vars, chat_vars, db_vars>>

\* SearchService.keyword_search.
KeywordSearch ==
  /\ pc = "idle"
  /\ \E query \in Queries, documents \in Corpora, limit \in Limits :
       /\ call' = [op |-> "keyword_search", query |-> query, documents |-> documents,
                   limit |-> limit]
       /\ ret' = [results |-> SearchService_keyword_search(query, documents, limit),
                  error |-> FALSE]
  /\ pc' = "done"
  /\ UNCHANGED <<vector_store, embeddings_enabled, config_vars, chat_vars, db_vars>>

\* FixedSearchService.smart_search: documents is what get_user_documents returns.
FixedSmartSearch ==
  /\ pc = "idle"
  /\ \E query \in Queries, documents \in Corpora, search_type \in SearchTypes,
        limit \in Limits :
       /\ call' = [op |-> "fixed_smart_search", query |-> query, documents |-> documents,
                   search_type |-> search_type, limit |-> limit,
                   keyword_weight |-> DefaultKeywordWeight10,
                   vector_weight |-> DefaultVectorWeight10]
       /\ ret' = FixedSearchService_smart_search(query, documents, search_type, limit,
                    DefaultKeywordWeight10, DefaultVectorWeight10)
  /\ pc' = "done"
  /\ UNCHANGED <<vector_store, embeddings_enabled, config_vars, chat_vars, db_vars>>

\* pick_most_related.
PickMostRelated ==
  /\ pc = "idle"
  /\ \E user_query \in PickQueries, snippets \in SnippetCorpora, use_bm25 \in BOOLEAN,
        cfg \in EmbeddingConfigs :
       /\ call' = [op |-> "pick_most_related", query |-> user_query,
                   snippets |-> snippets, use_bm25 |-> use_bm25,
                   use_embedding |-> cfg[1], query_embedding |-> cfg[2],
                   provider_calls |-> PickProviderCalls(snippets, cfg[1]),
                   bm25_divisors |->
                     PickDivisors(PickScorer(snippets, use_bm25, cfg[1], cfg[2]),
                                  user_query, snippets)]
       /\ ret' = pick_most_related(user_query, snippets, use_bm25, cfg[1], cfg[2])
  /\ pc' = "done"
  /\ UNCHANGED <<vector_store, embeddings_enabled, config_vars, chat_vars, db_vars>>

\* SearchService._apply_mass_selection on a result list.
ApplyMassSelection ==
  /\ pc = "idle"
  /\ \E results \in ResultLists, threshold_factor \in Factors10 :
       /\ call' = [op |-> "apply_mass_selection", results |-> results,
                   threshold_factor |-> threshold_factor]
       /\ ret' = [results |-> SearchService_apply_mass_selection(results, threshold_factor),
                  threshold |-> SearchService_calculate_mass_selection_threshold(
                                  [i \in DOMAIN results |-> results[i].score])]
  /\ pc' = "done"
  /\ UNCHANGED <<vector_store, embeddings_enabled, config_vars, chat_vars, db_vars>>

\* bm25_similarity on a query, a document and corpus statistics.
Bm25Similarity ==
  /\ pc = "idle"
  /\ \E query \in Bm25Queries, document \in Contents \cup {<<>>}, corpus_stats \in StatsChoices :
       /\ call' = [op |-> "bm25_similarity", query |-> query, document |-> document,
                   corpus_stats |-> corpus_stats]
       /\ ret' = [results |-> <<>>,
                  score |-> bm25_similarity(query, document, corpus_stats)]
  /\ pc' = "done"
  /\ UNCHANGED <<vector_store, embeddings_enabled, config_vars, chat_vars, db_vars>>

\* SearchService._calculate_bm25_score on a document of a corpus, as
\* keyword_search calls it.
SearchBm25Score ==
  /\ pc = "idle"
  /\ \E query \in Queries, documents \in ContentLists :
       \E i \in DOMAIN documents :
         /\ call' = [op |-> "search_bm25_score", query |-> query,
                     document |-> documents[i], documents |-> documents]
         /\ ret' = [results |-> <<>>,
                    score |-> SearchService_calculate_bm25_score(
                                SearchService_tokenize(query), documents[i], documents)]
  /\ pc' = "done"
  /\ UNCHANGED <<vector_store, embeddings_enabled, config_vars, chat_vars, db_vars>>

\* FixedSearchService._calculate_bm25_score on a document of a corpus, as
\* keyword_search calls it.
FixedBm25Score ==
  /\ pc = "idle"
  /\ \E query \in Queries, documents \in ContentLists :
       \E i \in DOMAIN documents :
         /\ call' = [op |-> "fixed_bm25_score", query |-> query,
                     document |-> documents[i], documents |-> documents]
         /\ ret' = [results |-> <<>>,
                    score |-> FixedSearchService_calculate_bm25_score(
                                FixedSearchService_tokenize(query),
                                FixedSearchService_tokenize(documents[i]),
                                Len(documents),
                                TotalLength([j \in DOMAIN documents |->
                                  FixedSearchService_tokenize(documents[j])]))]
  /\ pc' = "done"
  /\ UNCHANGED <<vector_store, embeddings_enabled, config_vars, chat_vars, db_vars>>

\* cosine_similarity of the SQL-example retrieval.
CosineSimilarity ==
  /\ pc = "idle"
  /\ \E vec1 \in CosineVectors, vec2 \in CosineVectors :
       /\ call' = [op |-> "cosine_similarity", vec1 |-> vec1, vec2 |-> vec2]
       /\ ret' = [results |-> <<>>, similarity |-> Number(cosine_similarity(vec1, vec2))]
  /\ pc' = "done"
  /\ UNCHANGED <<vector_store, embeddings_enabled, config_vars, chat_vars, db_vars>>

\* VectorService._cosine_similarity.
VectorCosineSimilarity ==
  /\ pc = "idle"
  /\ \E vec1 \in CosineVectors, vec2 \in CosineVectors :
       /\ call' = [op |-> "vector_cosine_similarity", vec1 |-> vec1, vec2 |-> vec2]
       /\ ret' = [results |-> <<>>,
                  similarity |-> VectorService_cosine_similarity(vec1, vec2)]
  /\ pc' = "done"
  /\ UNCHANGED <<vector_store, embeddings_enabled, config_vars, chat_vars, db_vars>>

\* VectorService.search_similar up to its await of the query embedding.  With
\* embeddings disabled it returns [] before awaiting anything.  store_at_start
\* records the store as it was when the call began; the code keeps no such copy.
\* provider_calls counts the calls of generate_embedding the search makes: the
\* one for the query; the loop over the chunks makes none.
SearchSimilarStart ==
  /\ pc = "idle"
  /\ \E limit \in FusedLimits, threshold \in {SemanticThreshold1000, -1000} :
       call' = [op |-> "search_similar", limit |-> limit, threshold |-> threshold,
                store_at_start |-> vector_store, query_embedding |-> NoVector,
                provider_calls |-> IF embeddings_enabled THEN 1 ELSE 0]
  /\ ret' = NoRet
  /\ pc' = IF embeddings_enabled THEN "awaiting" ELSE "done"
  /\ UNCHANGED <<vector_store, embeddings_enabled, config_vars, chat_vars, db_vars>>

\* SearchService.hybrid_search up to the await of the query embedding inside
\* semantic_search; the keyword search before it does not read the store.
HybridSearchStart ==
  /\ pc = "idle"
  /\ \E query \in Queries, documents \in Corpora, limit \in FusedLimits :
       /\ call' = [op |-> "hybrid_search_start", query |-> query, documents |-> documents,
                   limit |-> limit, threshold |-> HybridThreshold1000,
                   store_at_start |-> vector_store, query_embedding |-> NoVector,
                   provider_calls |-> IF embeddings_enabled THEN 1 ELSE 0]
       /\ ret' = [results |-> SearchService_hybrid_search(vector_store, FALSE, NoVector,
                    query, documents, limit, DefaultKeywordWeight10,
                    DefaultVectorWeight10, HybridThreshold1000)]
  /\ pc' = IF embeddings_enabled THEN "awaiting" ELSE "done"
  /\ UNCHANGED <<vector_store, embeddings_enabled, config_vars, chat_vars, db_vars>>

\* The provider returns the query embedding and the suspended search goes on:
\* it reads self.vector_store as it is now.
EmbeddingReturns ==
  /\ pc = "awaiting"
  /\ \E query_embedding \in QueryEmbeddings :
       /\ call' = [call EXCEPT !.query_embedding = query_embedding]
       /\ ret' = [results |->
                    IF call.op = "search_similar"
                    THEN VectorService_search_similar(vector_store, TRUE, query_embedding,
                           call.limit, call.threshold, <<>>)
                    ELSE SearchService_hybrid_search(vector_store, TRUE, query_embedding,
                           call.query, call.documents, call.limit,
                           DefaultKeywordWeight10, DefaultVectorWeight10, call.threshold)]
  /\ pc' = "done"
  /\ UNCHANGED <<vector_store, embeddings_enabled, config_vars, chat_vars, db_vars>>

\* An edit of one text field of the Snippet object: a plain attribute
\* assignment of the dataclass, which leaves the embedding field as it is.
EditSnippet ==
  /\ pc = "idle"
  /\ \/ \E name \in SnippetNames : config_snippet' = [config_snippet EXCEPT !.name = name]
     \/ \E sql \in SnippetSqls : config_snippet' = [config_snippet EXCEPT !.sql = sql]
     \/ \E description \in SnippetDescriptions :
          config_snippet' = [config_snippet EXCEPT !.description = description]
  /\ UNCHANGED <<pc, call, ret, vector_store, embeddings_enabled, embedding_cache,
                 config_file, chat_vars, db_vars>>

\* An edit of the snippet in the configuration file.
EditConfigFile ==
  /\ pc = "idle"
  /\ \E name \in SnippetNames, sql \in SnippetSqls, description \in SnippetDescriptions :
       config_file' = <<name, sql, description>>
  /\ UNCHANGED <<pc, call, ret, vector_store, embeddings_enabled, config_snippet,
                 embedding_cache, chat_vars, db_vars>>

\* ensure_snippets_have_embeddings(config.snippets).
EnsureSnippetsHaveEmbeddings ==
  /\ pc = "idle"
  /\ \E generated \in BOOLEAN :
       /\ call' = [op |-> "ensure_snippets_have_embeddings", generated |-> generated]
       /\ config_snippet' =
            ensure_snippets_have_embeddings(config_snippet, embedding_cache, generated).snippet
       /\ embedding_cache' =
            ensure_snippets_have_embeddings(config_snippet, embedding_cache, generated).cache
  /\ ret' = NoRet
  /\ pc' = "done"
  /\ UNCHANGED <<vector_store, embeddings_enabled, config_file, chat_vars, db_vars>>

\* save_config: ensure_snippets_have_embeddings, then name, sql and description
\* are written to the file.
SaveConfig ==
  /\ pc = "idle"
  /\ \E generated \in BOOLEAN :
       /\ call' = [op |-> "save_config", generated |-> generated]
       /\ config_snippet' =
            ensure_snippets_have_embeddings(config_snippet, embedding_cache, generated).snippet
       /\ embedding_cache' =
            ensure_snippets_have_embeddings(config_snippet, embedding_cache, generated).cache
  /\ config_file' = SnippetText(config_snippet)
  /\ ret' = NoRet
  /\ pc' = "done"
  /\ UNCHANGED <<vector_store, embeddings_enabled, chat_vars, db_vars>>

\* load_config: a new Snippet from the file, its embedding from the cache by
\* key, then ensure_snippets_have_embeddings.
LoadConfig ==
  /\ pc = "idle"
  /\ \E generated \in BOOLEAN :
       /\ call' = [op |-> "load_config", generated |-> generated]
       /\ config_snippet' =
            ensure_snippets_have_embeddings(SnippetOfFile(config_file), embedding_cache,
                                            generated).snippet
       /\ embedding_cache' =
            ensure_snippets_have_embeddings(SnippetOfFile(config_file), embedding_cache,
                                            generated).cache
  /\ ret' = NoRet
  /\ pc' = "done"
  /\ UNCHANGED <<vector_store, embeddings_enabled, config_file, chat_vars, db_vars>>

\* FixedChatService.process_message(message, user_id, conversation_history,
\* search_documents=False): the history is loaded into the user's memory, the
\* message list is built from the memory, and the exchange is saved when the
\* LLM answered.
ProcessMessage ==
  /\ pc = "idle"
  /\ \E user_id \in Users, conversation_history \in ConversationHistories, llm_ok \in BOOLEAN :
       \E message \in MessagesOf(user_id) :
         /\ call' = [op |-> "process_message", user_id |-> user_id, message |-> message,
                     previous |-> previous_message[user_id],
                     sent |-> LLMMessages(user_memories[user_id]
                                            \o LoadedHistory(conversation_history), message)]
         /\ user_memories' =
              [user_memories EXCEPT ![user_id] =
                 MemoryAfter(@, conversation_history, message, llm_ok)]
         /\ previous_message' =
              [previous_message EXCEPT ![user_id] = IF llm_ok THEN message ELSE NoMessage]
  /\ ret' = NoRet
  /\ pc' = "done"
  /\ UNCHANGED <<vector_store, embeddings_enabled, config_vars, db_vars>>

\* clear_user_memory(user_id).
ClearUserMemory ==
  /\ pc = "idle"
  /\ \E user_id \in Users :
       /\ user_memories[user_id] # <<>>
       /\ user_memories' = [user_memories EXCEPT ![user_id] = <<>>]
       /\ previous_message' = [previous_message EXCEPT ![user_id] = NoMessage]
  /\ UNCHANGED <<pc, call, ret, vector_store, embeddings_enabled, config_vars, db_vars>>

\* SimpleSQLite.load_rows: the table is dropped and built from the rows.
LoadRows ==
  /\ pc = "idle"
  /\ \E rows \in RowsChoices : table_rows' = rows
  /\ UNCHANGED <<pc, call, ret, vector_store, embeddings_enabled, config_vars, chat_vars>>

\* SimpleSQLite.execute_safe_select(sql): the check of the text, then the
\* execution of the original text.
ExecuteSafeSelect ==
  /\ pc = "idle"
  /\ \E text \in SqlTexts :
       /\ Len(RowsAfterExecute(table_rows, text)) <= MaxRows
       /\ call' = [op |-> "execute_safe_select", sql |-> text, rows_before |-> table_rows]
       /\ IF SafeSelectCheck(text) # "none"
          THEN /\ ret' = [results |-> <<>>, raises |-> SafeSelectCheck(text)]
               /\ table_rows' = table_rows
          ELSE /\ ret' = [results |-> IF ExecuteRaises(text) = "none"
                                      THEN table_rows ELSE <<>>,
                          raises |-> ExecuteRaises(text)]
               /\ table_rows' = RowsAfterExecute(table_rows, text)
  /\ pc' = "done"
  /\ UNCHANGED <<vector_store, embeddings_enabled, config_vars, chat_vars>>

\* The caller consumes the result; nothing of a ranking call is kept.
Consume ==
  /\ pc = "done"
  /\ pc' = "idle"
  /\ call' = NoCall
  /\ ret' = NoRet
  /\ UNCHANGED <<vector_store, embeddings_enabled, config_vars, chat_vars, db_vars>>

Next ==
  \/ AddDocument
  \/ RemoveDocument
  \/ NewSearch
  \/ HybridSearch
  \/ KeywordSearch
  \/ FixedSmartSearch
  \/ PickMostRelated
  \/ Consume

Spec == Init /\ [][Next]_vars

\* The mass selection alone, on every result list.
NextSelect == ApplyMassSelection \/ Consume

SpecSelect == Init /\ [][NextSelect]_vars

\* The two hybrid searches on the caller's documents, over a changing store.
NextFused ==
  \/ AddDocument
  \/ RemoveDocument
  \/ HybridSearchTuned
  \/ FixedHybridSearch
  \/ Consume

SpecFused == Init /\ [][NextFused]_vars

\* Retrieval calls that use the embedding provider, while other requests change
\* the store.
NextConcurrent ==
  \/ AddDocument
  \/ RemoveDocument
  \/ SearchSimilarStart
  \/ HybridSearchStart
  \/ EmbeddingReturns
  \/ PickMostRelated
  \/ Consume

SpecConcurrent == Init /\ [][NextConcurrent]_vars

\* The configured snippet: edits, and the calls that attach its embedding.
NextConfig ==
  \/ EditSnippet
  \/ EditConfigFile
  \/ EnsureSnippetsHaveEmbeddings
  \/ SaveConfig
  \/ LoadConfig
  \/ Consume

SpecConfig == Init /\ [][NextConfig]_vars

\* The chat service.
NextChat ==
  \/ ProcessMessage
  \/ ClearUserMemory
  \/ Consume

SpecChat == Init /\ [][NextChat]_vars

\* The SQL engine.
NextSql ==
  \/ LoadRows
  \/ ExecuteSafeSelect
  \/ Consume

SpecSql == Init /\ [][NextSql]_vars

\* The scorers alone: BM25 on every query, document and corpus, cosine on every
\* pair of vectors.
NextScore ==
  \/ Bm25Similarity
  \/ SearchBm25Score
  \/ FixedBm25Score
  \/ CosineSimilarity
  \/ VectorCosineSimilarity
  \/ Consume

SpecScore == Init /\ [][NextScore]_vars

(***************************************************************************)
(* Properties.                                                             *)
(***************************************************************************)
Done(op) == pc = "done" /\ call.op = op

\* The position of the row for id in a result list, 0 when it has none.
PosOf(results, id) ==
  IF \E i \in DOMAIN results : results[i].id = id
  THEN CHOOSE i \in DOMAIN results : results[i].id = id
  ELSE 0

\* C1: for every limit N >= 0, every search type and every corpus, new_search /
\* smart_search of SearchService and smart_search of FixedSearchService return
\* at most N results, and pick_most_related never returns more than 3.
C1_LimitRespected ==
  /\ (Done("new_search") /\ call.limit >= 0) => Len(ret.results) <= call.limit
  /\ (Done("fixed_smart_search") /\ call.limit >= 0) => Len(ret.results) <= call.limit
  /\ Done("pick_most_related") => Len(ret.results) <= 3

\* A search in which the limit cut the selected results short.
C1_Witness ==
  /\ Done("new_search")
  /\ call.limit = 1
  /\ ret.selected_count = 2
  /\ Len(ret.results) = 1

\* C2 (as claimed): with item A containing every query term and item B none
\* of them, A is returned, ranked before B, with a strictly higher score; in
\* keyword_search of both services and in the lexical paths of
\* pick_most_related.  Only calls whose limit admits every matching item count.
LexicalOrderOk(results, a, b) ==
  LET pa == PosOf(results, a)
      pb == PosOf(results, b)
  IN /\ pa > 0
     /\ pb = 0 \/ pa < pb
     /\ results[pa].score > (IF pb = 0 THEN 0 ELSE results[pb].score)

ClaimedOrder(results, tokens, query_terms, limit) ==
  LET matching == {i \in DOMAIN tokens : tokens[i] \cap query_terms # {}}
  IN (query_terms # {} /\ limit >= Cardinality(matching)) =>
       \A a, b \in DOMAIN tokens :
         (query_terms \subseteq tokens[a] /\ tokens[b] \cap query_terms = {})
           => LexicalOrderOk(results, a, b)

PickRows(results) == [i \in DOMAIN results |-> [id |-> results[i].index, score |-> results[i].score]]

C2_LexicalRanking ==
  /\ Done("keyword_search") =>
       ClaimedOrder(ret.results,
                    [i \in DOMAIN call.documents |->
                       SearchService_tokenize(call.documents[i].content)],
                    SearchService_tokenize(call.query), call.limit)
  /\ (Done("fixed_smart_search") /\ call.search_type = "keyword") =>
       ClaimedOrder(ret.results,
                    [i \in DOMAIN call.documents |->
                       Range(FixedSearchService_tokenize(call.documents[i].content))],
                    Range(FixedSearchService_tokenize(call.query)), call.limit)
  /\ (Done("pick_most_related") /\ ret.scorer \in {"bm25", "jaccard"}) =>
       ClaimedOrder(PickRows(ret.results),
                    [i \in DOMAIN call.snippets |->
                       Range(AgentTokens(call.snippets[i].name \o call.snippets[i].description
                                         \o call.snippets[i].sql))],
                    Range(AgentTokens(call.query)), 3)

\* C3 (as claimed, for the service that is handed its documents): in semantic
\* or vector mode, where no item has an embedding, smart_search falls back to
\* lexical ranking and returns a non-empty result without an error whenever
\* some document shares a term with the query.
C3_SemanticFallsBack ==
  (/\ Done("fixed_smart_search")
   /\ call.search_type \in {"semantic", "vector"}
   /\ call.limit >= 1
   /\ \E i \in DOMAIN call.documents :
        Range(FixedSearchService_tokenize(call.documents[i].content))
          \cap Range(FixedSearchService_tokenize(call.query)) # {})
    => (ret.results # <<>> /\ ~ret.error)

\* C4: when the query embedding cannot be obtained, or no snippet has an
\* embedding, pick_most_related returns the ranking of the lexical scorer; and
\* when the vector search fails, hybrid_search of SearchService returns the
\* keyword ranking: vector contribution 0, score = keyword score x weight, the
\* keyword results above the threshold in keyword order, cut at the limit.
NoSnippetEmbedded(snippets) == \A i \in DOMAIN snippets : snippets[i].embedding = NoVector

KeywordOnlyIds(query, documents, limit, keyword_weight, threshold) ==
  LET docs == IF documents = <<>> THEN MockDocuments(query) ELSE documents
      kw == SearchService_keyword_search(query, docs, limit * 2)
      keeps == {i \in DOMAIN kw : kw[i].keyword_score * keyword_weight > threshold * 10}
      nth(k) == CHOOSE i \in keeps : Cardinality({j \in keeps : j < i}) = k - 1
  IN Slice([k \in 1..Cardinality(keeps) |-> kw[nth(k)].id], limit)

C5_EmptyQueryEmpty ==
  /\ (Done("pick_most_related") /\ call.query = <<>> /\ call.snippets # <<>>)
       => ret.results = <<>>
  /\ (Done("fixed_smart_search") /\ call.query = <<>> /\ call.documents # <<>>)
       => (ret.results = <<>> /\ ret.total_found = 0)
  /\ (Done("new_search") /\ call.query = <<>> /\ vector_store # <<>>)
       => (ret.results = <<>> /\ ret.total_found = 0)

\* C6 (as claimed): on a corpus of size 0 every search returns an empty result
\* list with total_found = 0, whatever the vector store holds: hybrid_search and
\* new_search without documents, smart_search of FixedSearchService for a user
\* without documents, pick_most_related without snippets.
C6_EmptyCorpusEmpty ==
  /\ (Done("hybrid_search") /\ call.documents = <<>>) => ret.results = <<>>
  /\ (Done("new_search") /\ call.search_type # "semantic")
       => (ret.results = <<>> /\ ret.total_found = 0)
  /\ (Done("fixed_smart_search") /\ call.documents = <<>>)
       => (ret.results = <<>> /\ ret.total_found = 0)
  /\ (Done("pick_most_related") /\ call.snippets = <<>>) => ret.results = <<>>

\* C7 (as claimed): an invalid mode string, a negative weight or a negative
\* limit is answered with an error; it is never processed as if it were valid.
ValidModes == {"keyword", "semantic", "vector", "hybrid", "smart_hybrid"}

C7_InvalidRejected ==
  /\ (Done("new_search")
        /\ (\/ call.search_type \notin ValidModes
            \/ call.keyword_weight < 0
            \/ call.vector_weight < 0
            \/ call.limit < 0))
       => ret.error
  /\ (Done("fixed_smart_search")
        /\ (call.search_type \notin ValidModes \/ call.limit < 0))
       => ret.error

\* The largest score of a non-empty result list.
MaxScore(results) ==
  CHOOSE m \in {results[i].score : i \in DOMAIN results} :
    \A i \in DOMAIN results : results[i].score <= m

\* C8 (as claimed): the mass selection of a non-empty list, whatever its
\* scores, keeps at least one item, and of an empty list it is empty.
C8_SelectionNonEmpty ==
  Done("apply_mass_selection") =>
    /\ call.results # <<>> => ret.results # <<>>
    /\ call.results = <<>> => ret.results = <<>>

\* C9: the mass selection returns exactly the input items whose score is >= the
\* computed threshold (boundary included), in input order; the threshold is
\* 0.6 x max_score or 0.7 x max_score; every returned score is >= 0.6 x max_score.
C9_SelectionIsThresholdFilter ==
  (Done("apply_mass_selection") /\ call.results # <<>>) =>
    LET max_score == MaxScore(call.results)
        kept == {ret.results[i].id : i \in DOMAIN ret.results}
    IN /\ ret.threshold \in {max_score * 6, max_score * 7}
       /\ \A i \in DOMAIN ret.results : ret.results[i] = call.results[ret.results[i].id]
       /\ kept = {i \in DOMAIN call.results : call.results[i].score * 10 >= ret.threshold}
       /\ \A i, j \in DOMAIN ret.results : i < j => ret.results[i].id < ret.results[j].id
       /\ \A i \in DOMAIN ret.results :
            ret.results[i].score * 10 >= max_score * 6

\* A selection under the raised threshold that keeps an item on the boundary
\* and drops one under it.
C9_Witness ==
  /\ Done("apply_mass_selection")
  /\ Len(call.results) = 4
  /\ ret.threshold = MaxScore(call.results) * 7
  /\ ret.threshold > 0
  /\ \E i \in DOMAIN ret.results : ret.results[i].score * 10 = ret.threshold
  /\ 0 < Len(ret.results)
  /\ Len(ret.results) < Len(call.results)

\* C10 (as claimed): the threshold is raised from 0.6 x max_score to
\* 0.7 x max_score exactly when more than 70% of all items score below
\* 0.6 x max_score.
C10_EscalationRule ==
  (Done("apply_mass_selection") /\ Len(call.results) >= 2
     /\ MaxScore(call.results) > 0) =>
    LET max_score == MaxScore(call.results)
        under == {i \in DOMAIN call.results :
                    call.results[i].score * 10 < max_score * 6}
    IN (ret.threshold = max_score * 7)
         <=> (Cardinality(under) * 10 > 7 * Len(call.results))

\* The input rows that score at least 0.6 x max_score.
AtOrAboveBase(results) ==
  {i \in DOMAIN results : results[i].score * 10 >= MaxScore(results) * 6}

C12_FactorSetsThreshold ==
  (Done("apply_mass_selection") /\ call.results # <<>> /\ MaxScore(call.results) > 0)
    => ret.threshold \in {MaxScore(call.results) * call.threshold_factor,
                          MaxScore(call.results) * 7}

\* C13: in every dictionary new_search returns, on the normal and on the error
\* path, for limit >= 0: final_count = len(results) = min(selected_count, limit)
\* and final_count <= selected_count <= total_found.
C13_CountsConsistent ==
  (Done("new_search") /\ call.limit >= 0) =>
    /\ ret.final_count = Len(ret.results)
    /\ ret.final_count = IF ret.selected_count < call.limit
                         THEN ret.selected_count ELSE call.limit
    /\ ret.final_count <= ret.selected_count
    /\ ret.selected_count <= ret.total_found

\* Two rows found, both selected, one returned under limit 1.
C13_Witness ==
  /\ Done("new_search")
  /\ ~ret.error
  /\ call.limit = 1
  /\ ret.total_found = 2
  /\ ret.selected_count = 2
  /\ ret.final_count = 1

\* The documents hybrid_search ranks: the caller's, or the mock ones.
HybridDocs == IF call.documents = <<>> THEN MockDocuments(call.query) ELSE call.documents

\* What the two searches of the call return, computed apart from the fusion.
KeywordSignals == SearchService_keyword_search(call.query, HybridDocs, call.limit * 2)

VectorSignals ==
  VectorService_search_similar(vector_store, embeddings_enabled, call.query_embedding,
                               call.limit * 2, call.threshold, ResultIds(HybridDocs))

FixedKeywordSignals ==
  FixedSearchService_keyword_search(call.query, call.documents, call.limit * 2)

\* The keyword score the list holds for the document; 0 when it holds none.
SignalOf(signals, id) ==
  IF \E i \in DOMAIN signals : signals[i].id = id
  THEN signals[CHOOSE i \in DOMAIN signals : signals[i].id = id].score
  ELSE 0

\* The similarities the vector search found for the document; {0} when none.
SimilaritiesOf(signals, id) ==
  IF \E i \in DOMAIN signals : signals[i].id = id
  THEN {signals[i].vector_score : i \in {j \in DOMAIN signals : signals[j].id = id}}
  ELSE {0}

\* C14: every item hybrid_search returns (SearchService and FixedSearchService)
\* has score = keyword_score x keyword_weight + vector_score x vector_weight;
\* a missing signal contributes exactly 0 and nothing else is deducted.
C14_WeightedSum ==
  /\ Done("hybrid_search") =>
       \A i \in DOMAIN ret.results :
         /\ ret.results[i].score =
              ret.results[i].keyword_score * call.keyword_weight
              + ret.results[i].vector_score * call.vector_weight
         /\ ret.results[i].keyword_score = SignalOf(KeywordSignals, ret.results[i].id)
         /\ ret.results[i].vector_score \in SimilaritiesOf(VectorSignals, ret.results[i].id)
  /\ (Done("new_search") /\ ~ret.error /\ call.search_type \notin {"semantic", "keyword"}) =>
       \A i \in DOMAIN ret.results :
         ret.results[i].score =
           ret.results[i].keyword_score * call.keyword_weight
           + ret.results[i].vector_score * call.vector_weight
  /\ (Done("fixed_smart_search")
      /\ call.search_type \notin {"keyword", "semantic", "vector"}) =>
       \A i \in DOMAIN ret.results :
         ret.results[i].score =
           SignalOf(FixedKeywordSignals, ret.results[i].id) * call.keyword_weight
           + 0 * call.vector_weight

\* A hybrid result that has only its keyword signal, and the weighted score of it.
C14_Witness ==
  /\ Done("hybrid_search")
  /\ \E i \in DOMAIN ret.results :
       /\ ret.results[i].keyword_score > 0
       /\ ret.results[i].vector_score = 0
       /\ ret.results[i].score = ret.results[i].keyword_score * DefaultKeywordWeight10

\* The lexical score of a text under the scorer of the call, in 1/1000.
LexicalScore(scorer, user_query, text, snippets) ==
  IF scorer = "bm25"
  THEN bm25_similarity(user_query, text, CorpusStats(AllDocs(snippets)))
  ELSE naive_similarity(user_query, text)

\* C15: in lexical mode the fused score of a snippet is
\* 1.5 x score(query, name + description) + 1.0 x score(query, sql), for the
\* BM25 scorer and for the Jaccard scorer alike.
C15_LexicalFusionIsWeightedSum ==
  (Done("pick_most_related") /\ ret.scorer \in {"bm25", "jaccard"}) =>
    \A i \in DOMAIN ret.results :
      ret.results[i].score =
        NameWeight10 * LexicalScore(ret.scorer, call.query,
                         ret.results[i].snippet.name \o ret.results[i].snippet.description,
                         call.snippets)
        + SqlWeight10 * LexicalScore(ret.scorer, call.query,
                          ret.results[i].snippet.sql, call.snippets)

\* C16: which lexical scorer pick_most_related uses is decided by the caller's
\* use_bm25 alone (TRUE: BM25, FALSE: Jaccard), on every path that ends in
\* lexical scoring, both embedding-fallback paths included.
C16_CallerChoosesLexicalScorer ==
  (Done("pick_most_related") /\ ret.scorer \in {"bm25", "jaccard"}) =>
    ret.scorer = IF call.use_bm25 THEN "bm25" ELSE "jaccard"

\* The corpus positions pick_most_related returned.
ReturnedIndexes == {ret.results[i].index : i \in DOMAIN ret.results}

\* The score the scorer of the call gives the snippet at a corpus position.
ScoreAt(j) ==
  PickScore(ret.scorer, call.query, call.snippets[j],
            CorpusStats(AllDocs(call.snippets)), call.query_embedding)

\* C17: for a corpus of at least 3 snippets and any query, pick_most_related
\* returns exactly 3 results and they are the 3 highest-scoring snippets, under
\* the embedding scorer (also when only some snippets have an embedding) and
\* under a lexical scorer.
C17_ExactlyTopThree ==
  (Done("pick_most_related") /\ Len(call.snippets) >= TopSnippets) =>
    /\ Len(ret.results) = TopSnippets
    /\ \A i \in DOMAIN ret.results :
         \A j \in DOMAIN call.snippets \ ReturnedIndexes :
           (ret.scorer = "embedding" => call.snippets[j].embedding # NoVector)
             => ScoreAt(j) <= ret.results[i].score

CorpusPos(id) == CHOOSE i \in DOMAIN HybridDocs : HybridDocs[i].id = id

\* C19: in the output of SearchService.hybrid_search and of
\* FixedSearchService.hybrid_search two documents with equal fused score appear
\* in the order of the documents list, whatever their keyword and vector scores.
C19_FusedTiesInCorpusOrder ==
  (Done("hybrid_search") \/ Done("fixed_hybrid_search")) =>
    \A k, l \in DOMAIN ret.results :
      (k < l /\ ret.results[k].score = ret.results[l].score)
        => CorpusPos(ret.results[k].id) < CorpusPos(ret.results[l].id)

\* C20: every BM25 scorer returns a value >= 0 for all inputs: bm25_similarity,
\* SearchService._calculate_bm25_score and FixedSearchService._calculate_bm25_score
\* (corpus of at least one document).
C20_Bm25NonNegative ==
  (Done("bm25_similarity") \/ Done("search_bm25_score") \/ Done("fixed_bm25_score"))
    => ret.score >= 0

\* The distinct terms of a query, and those of them a document holds.
QueryTermSet(query) == Range(AgentTokens(query))

MatchedTerms(query, document) == QueryTermSet(query) \cap Range(AgentTokens(document))

\* From query q1 to query q2 the document matches a larger fraction of the
\* distinct query terms: q2 keeps every matched term of q1, adds no unmatched
\* one, and matched / total is strictly larger.
CoverageRises(q1, q2, document) ==
  /\ QueryTermSet(q1) # {}
  /\ QueryTermSet(q2) # {}
  /\ MatchedTerms(q1, document) \subseteq MatchedTerms(q2, document)
  /\ (QueryTermSet(q2) \ MatchedTerms(q2, document))
       \subseteq (QueryTermSet(q1) \ MatchedTerms(q1, document))
  /\ Cardinality(MatchedTerms(q2, document)) * Cardinality(QueryTermSet(q1))
       > Cardinality(MatchedTerms(q1, document)) * Cardinality(QueryTermSet(q2))

\* C21: for a fixed document and fixed corpus statistics, raising the fraction
\* of distinct query terms the document matches never lowers the score
\* bm25_similarity returns.
C21_CoverageMonotone ==
  Done("bm25_similarity") =>
    \A q2 \in Bm25Queries :
      CoverageRises(call.query, q2, call.document)
        => bm25_similarity(q2, call.document, call.corpus_stats) >= ret.score

\* One of the two vectors is empty, or they differ in length, or one has norm 0.
Degenerate(vec1, vec2) ==
  \/ vec1 = NoVector
  \/ vec2 = NoVector
  \/ Len(vec1) # Len(vec2)
  \/ Dot(vec1, vec1) = 0
  \/ Dot(vec2, vec2) = 0

\* C22: cosine similarity is exactly 0, not an exception and not NaN, when a
\* vector is empty or missing, when the lengths differ, or when a vector has
\* zero norm; in cosine_similarity and in VectorService._cosine_similarity.
C22_CosineDegenerateIsZero ==
  ((Done("cosine_similarity") \/ Done("vector_cosine_similarity"))
   /\ Degenerate(call.vec1, call.vec2))
    => ret.similarity = Number(0)

\* What the suspended call returns when it ranks the store of its start.
FromSnapshot ==
  IF call.op = "search_similar"
  THEN VectorService_search_similar(call.store_at_start, embeddings_enabled,
         call.query_embedding, call.limit, call.threshold, <<>>)
  ELSE SearchService_hybrid_search(call.store_at_start, embeddings_enabled,
         call.query_embedding, call.query, call.documents, call.limit,
         DefaultKeywordWeight10, DefaultVectorWeight10, call.threshold)

\* C23: a ranking call works from the store as it was at call start: when
\* another request adds or removes a document while search_similar or
\* hybrid_search awaits the query embedding, the results are those the call
\* gives without that change.
C23_RanksSnapshotOfCallStart ==
  (Done("search_similar") \/ Done("hybrid_search_start")) => ret.results = FromSnapshot

C25_EmbeddingIsOfCurrentText ==
  (\/ Done("ensure_snippets_have_embeddings")
   \/ Done("save_config")
   \/ Done("load_config"))
    => config_snippet.embedding \in {NoEmbedding, SnippetText(config_snippet)}

\* The texts of the messages handed to the LLM by the call just made.
SentContents == {call.sent[i].content : i \in DOMAIN call.sent}

\* The messages handed to the LLM before the current message.
SentBefore == {call.sent[i].content : i \in 1..(Len(call.sent) - 1)}

\* C26: after a process_message call of a user whose LLM call succeeded, the
\* next process_message call of that user hands the LLM a list that contains
\* the message of the earlier call, whatever conversation_history comes with
\* it; no message of another user is in the list.
C26_MemoryKeepsPreviousMessage ==
  Done("process_message") =>
    /\ call.previous # NoMessage => call.previous \in SentBefore
    /\ \A u \in Users \ {call.user_id} : SentContents \cap MessagesOf(u) = {}

\* The second half of C26 alone: the list holds no message of another user.
C26_OtherUsersAbsent ==
  Done("process_message") =>
    \A u \in Users \ {call.user_id} : SentContents \cap MessagesOf(u) = {}

\* The answer new_search gives to the call just made when only its limit is changed.
NewSearchWithLimit(limit) ==
  SearchService_new_search(vector_store, embeddings_enabled, call.query_embedding,
    call.query, call.search_type, limit, call.keyword_weight, call.vector_weight,
    call.threshold, call.unknown_kwarg)

\* C27: new_search hands the complete fused ranking to the mass selection,
\* before any truncation by the limit: total_found and selected_count (and so
\* the threshold they come from) are the same for every positive limit.
C27_CountsIndependentOfLimit ==
  (Done("new_search") /\ ~ret.error /\ call.limit >= 1) =>
    \A limit \in call.limit..(call.limit + MaxDocs) :
      /\ NewSearchWithLimit(limit).total_found = ret.total_found
      /\ NewSearchWithLimit(limit).selected_count = ret.selected_count

C29_VectorScoreIsBestChunk ==
  Done("hybrid_search") =>
    \A i \in DOMAIN ret.results :
      \A similarity \in SimilaritiesOf(VectorSignals, ret.results[i].id) :
        ret.results[i].vector_score >= similarity

\* C30: execute_safe_select never changes the database: a text that would
\* insert, update, delete or alter, also one that begins with WITH, is
\* rejected with ValueError and the table is as it was before the call.
C30_SafeSelectNeverWrites ==
  Done("execute_safe_select") =>
    /\ table_rows = call.rows_before
    /\ SqlVerb(call.sql) \in {"DELETE", "INSERT"} => ret.raises = "ValueError"

====
